---- MODULE Spec2Model ----
(***************************************************************************)
(* A model of @paean-ai/webhook-push (src/webhook-push/index.js): the      *)
(* platform registry, the configuration resolver (getConfig, isConfigured, *)
(* getConfiguredPlatforms), the HTTP dispatcher (sendRequest) and the      *)
(* public API (push, pushProgress).                                        *)
(*                                                                         *)
(* JavaScript strings are TLA+ strings (sequences of characters), so that  *)
(* template literals are concatenations and "the message contains ..." is  *)
(* a statement about substrings.  process.env is a function whose domain   *)
(* is the set of variables that are set.  A call that can throw returns a  *)
(* completion record [threw |-> ..]; a promise is a record with a state.   *)
(***************************************************************************)
EXTENDS Integers, Sequences, FiniteSets, TLC

VARIABLES
    env,        \* process.env restricted to the WEBHOOK_* variables
    loadEnv,    \* process.env as it was when the module was loaded
    ret,        \* completion of the configuration call made by the last step
    calls,      \* the push / pushProgress calls made so far, in call order
    requests    \* the outbound requests issued so far, in issue order

vars == <<env, loadEnv, ret, calls, requests>>

----------------------------------------------------------------------------
(* String helpers (JavaScript string primitives used by the source).       *)

StartsWith(s, p) ==
    Len(s) >= Len(p) /\ SubSeq(s, 1, Len(p)) = p

Contains(s, sub) ==
    \E i \in 1..(Len(s) - Len(sub) + 1) : SubSeq(s, i, i + Len(sub) - 1) = sub

IndexOf(s, ch) ==
    IF \E i \in 1..Len(s) : SubSeq(s, i, i) = ch
    THEN CHOOSE i \in 1..Len(s) :
            /\ SubSeq(s, i, i) = ch
            /\ \A j \in 1..(i - 1) : SubSeq(s, j, j) # ch
    ELSE 0

RECURSIVE Join(_, _)
Join(seq, sep) ==
    IF Len(seq) = 0 THEN ""
    ELSE IF Len(seq) = 1 THEN seq[1]
    ELSE seq[1] \o sep \o Join(Tail(seq), sep)

----------------------------------------------------------------------------
(* Platform registry.                                                      *)

PLATFORMS ==
    [WECOM |-> "wecom", DINGTALK |-> "dingtalk", FEISHU |-> "feishu",
     SLACK |-> "slack", TELEGRAM |-> "telegram"]

\* Object.values(PLATFORMS): the values in insertion order.
PlatformValues ==
    <<PLATFORMS.WECOM, PLATFORMS.DINGTALK, PLATFORMS.FEISHU,
      PLATFORMS.SLACK, PLATFORMS.TELEGRAM>>

ENV_KEYS ==
    [wecom |-> "WEBHOOK_WECOM_KEY", dingtalk |-> "WEBHOOK_DINGTALK_TOKEN",
     feishu |-> "WEBHOOK_FEISHU_TOKEN", slack |-> "WEBHOOK_SLACK_URL",
     telegram |-> "WEBHOOK_TELEGRAM_TOKEN"]

\* The extras table without Telegram's chat id
ENV_EXTRAS_none == [n \in {} |-> ""]

ENV_EXTRAS == [telegram |-> "WEBHOOK_TELEGRAM_CHAT_ID"]

DEFAULT_PLATFORM == PLATFORMS.WECOM

\* ENV_KEYS, ENV_EXTRAS, buildWebhookUrl and formatMessage are object
\* literals: a property that is not their own is looked up on Object.prototype.
\* The value found there is a function; used as a property key or in a
\* template literal it is coerced to the string given here.
ObjectPrototype ==
    [constructor |-> "function Object() { [native code] }"]

\* obj[key] for an object literal obj whose own values are strings.
PropertyGet(obj, key) ==
    IF key \in DOMAIN obj THEN [defined |-> TRUE, value |-> obj[key]]
    ELSE IF key \in DOMAIN ObjectPrototype
         THEN [defined |-> TRUE, value |-> ObjectPrototype[key]]
         ELSE [defined |-> FALSE, value |-> "undefined"]

----------------------------------------------------------------------------
(* Configuration resolver.                                                 *)

\* process.env[name] read from the environment as loaded at require time.
ProcessEnvAtLoad(name) ==
    IF name \in DOMAIN loadEnv THEN [defined |-> TRUE, value |-> loadEnv[name]]
    ELSE [defined |-> FALSE, value |-> "undefined"]

\* process.env[name]
ProcessEnv(name) ==
    IF name \in DOMAIN env THEN [defined |-> TRUE, value |-> env[name]]
    ELSE [defined |-> FALSE, value |-> "undefined"]

\* !v for a value that is undefined or a string
Not(v) == ~v.defined \/ v.value = ""

Throw(message) == [threw |-> TRUE, error |-> [name |-> "Error", message |-> message]]

Return(value) == [threw |-> FALSE, value |-> value]

\* getConfig without the check of the extra variable
getConfig_noExtra(platform) ==
    LET envKey == PropertyGet(ENV_KEYS, platform)
        key == ProcessEnv(envKey.value)
    IN  IF Not(envKey) THEN
            Throw("Unknown platform: " \o platform \o ". Supported platforms: "
                  \o Join(PlatformValues, ", "))
        ELSE IF Not(key) THEN
            Throw("Missing environment variable: " \o envKey.value \o "\n"
                  \o "Please set it in your .env file or environment.\n"
                  \o "Example: " \o envKey.value \o "=your-webhook-key-or-token")
        ELSE Return([key |-> key.value])

getConfig(platform) ==
    LET envKey == PropertyGet(ENV_KEYS, platform)
        key == ProcessEnv(envKey.value)
        extraEnv == PropertyGet(ENV_EXTRAS, platform)
        extraValue == ProcessEnv(extraEnv.value)
    IN  IF Not(envKey) THEN
            Throw("Unknown platform: " \o platform \o ". Supported platforms: "
                  \o Join(PlatformValues, ", "))
        ELSE IF Not(key) THEN
            Throw("Missing environment variable: " \o envKey.value \o "\n"
                  \o "Please set it in your .env file or environment.\n"
                  \o "Example: " \o envKey.value \o "=your-webhook-key-or-token")
        ELSE IF ~Not(extraEnv) THEN
            IF Not(extraValue) THEN
                Throw("Missing environment variable: " \o extraEnv.value \o "\n"
                      \o "This is required for " \o platform \o " webhooks.")
            ELSE Return([key |-> key.value, extra |-> extraValue.value])
        ELSE Return([key |-> key.value])

\* isConfigured without its try/catch
isConfigured_noCatch(platform) ==
    LET r == getConfig(platform)
    IN  IF r.threw THEN r ELSE Return(TRUE)

isConfigured(platform) ==
    LET r == getConfig(platform)
    IN  IF r.threw THEN Return(FALSE) ELSE Return(TRUE)

\* getConfiguredPlatforms filtering on the primary variable alone
getConfiguredPlatforms_keyOnly ==
    Return(SelectSeq(PlatformValues, LAMBDA p : ~Not(ProcessEnv(ENV_KEYS[p]))))

\* Object.values(PLATFORMS).filter(isConfigured): the elements for which the
\* callback returns true, in array order; a throw of the callback ends the
\* filter and propagates.
getConfiguredPlatforms ==
    LET n == Len(PlatformValues)
        r == [i \in 1..n |-> isConfigured(PlatformValues[i])]
    IN  IF \E i \in 1..n : r[i].threw
        THEN r[CHOOSE i \in 1..n : r[i].threw /\ \A j \in 1..(i - 1) : ~r[j].threw]
        ELSE Return(SelectSeq(PlatformValues, LAMBDA p : isConfigured(p).value))

----------------------------------------------------------------------------
(* JavaScript values that are serialized or parsed: a tagged tree.  An     *)
(* object keeps its members in insertion order, as JSON.stringify emits    *)
(* them.                                                                   *)

JStr(s) == [t |-> "string", v |-> s]
JNum(n) == [t |-> "number", v |-> n]
JLit(name) == [t |-> "literal", v |-> name]
JObj(members) == [t |-> "object", v |-> members]
JArr(items) == [t |-> "array", v |-> items]

First(s) == SubSeq(s, 1, 1)
Rest(s) == SubSeq(s, 2, Len(s))
From(s, i) == SubSeq(s, i, Len(s))

\* The escapes JSON.stringify applies to the characters used here.
RECURSIVE QuoteChars(_)
QuoteChars(s) ==
    IF s = "" THEN ""
    ELSE IF Len(s) = 1 THEN
        (CASE s = "\"" -> "\\\""
           [] s = "\\" -> "\\\\"
           [] s = "\n" -> "\\n"
           [] OTHER -> s)
    ELSE QuoteChars(SubSeq(s, 1, Len(s) \div 2))
         \o QuoteChars(From(s, Len(s) \div 2 + 1))

RECURSIVE JSONStringify(_)
JSONStringify(x) ==
    LET RECURSIVE Items(_)
        Items(seq) ==
            IF Len(seq) = 0 THEN ""
            ELSE JSONStringify(seq[1])
                 \o (IF Len(seq) > 1 THEN "," ELSE "") \o Items(Tail(seq))
        RECURSIVE Members(_)
        Members(seq) ==
            IF Len(seq) = 0 THEN ""
            ELSE "\"" \o QuoteChars(seq[1][1]) \o "\":" \o JSONStringify(seq[1][2])
                 \o (IF Len(seq) > 1 THEN "," ELSE "") \o Members(Tail(seq))
    IN  CASE x.t = "string" -> "\"" \o QuoteChars(x.v) \o "\""
          [] x.t = "number" -> ToString(x.v)
          [] x.t = "literal" -> x.v
          [] x.t = "array" -> "[" \o Items(x.v) \o "]"
          [] x.t = "object" -> "{" \o Members(x.v) \o "}"

Digits == [c \in {"0", "1", "2", "3", "4", "5", "6", "7", "8", "9"} |->
              CASE c = "0" -> 0 [] c = "1" -> 1 [] c = "2" -> 2 [] c = "3" -> 3
                [] c = "4" -> 4 [] c = "5" -> 5 [] c = "6" -> 6 [] c = "7" -> 7
                [] c = "8" -> 8 [] c = "9" -> 9]

Fail == [ok |-> FALSE, value |-> JLit("undefined"), rest |-> ""]

\* One JSON value at the start of s: objects, strings without escapes,
\* non-negative integers and the literals true, false, null; no white space.
RECURSIVE ParseValue(_)
ParseValue(s) ==
    LET RECURSIVE Number(_, _)
        Number(acc, r) ==
            IF r # "" /\ First(r) \in DOMAIN Digits
            THEN Number(10 * acc + Digits[First(r)], Rest(r))
            ELSE [ok |-> TRUE, value |-> JNum(acc), rest |-> r]
        String(r) ==
            LET close == IndexOf(r, "\"")
            IN  IF close = 0 \/ Contains(SubSeq(r, 1, close), "\\") THEN Fail
                ELSE [ok |-> TRUE, value |-> JStr(SubSeq(r, 1, close - 1)),
                      rest |-> From(r, close + 1)]
        RECURSIVE Members(_, _)
        Members(acc, r) ==
            IF r = "" \/ First(r) # "\"" THEN Fail
            ELSE LET k == String(Rest(r))
                 IN  IF ~k.ok \/ k.rest = "" \/ First(k.rest) # ":" THEN Fail
                     ELSE LET v == ParseValue(Rest(k.rest))
                              all == Append(acc, <<k.value.v, v.value>>)
                          IN  IF ~v.ok \/ v.rest = "" THEN Fail
                              ELSE IF First(v.rest) = "}"
                                   THEN [ok |-> TRUE, value |-> JObj(all),
                                         rest |-> Rest(v.rest)]
                              ELSE IF First(v.rest) = ","
                                   THEN Members(all, Rest(v.rest))
                              ELSE Fail
    IN  IF s = "" THEN Fail
        ELSE IF First(s) = "{" THEN
            IF Rest(s) # "" /\ First(Rest(s)) = "}"
            THEN [ok |-> TRUE, value |-> JObj(<< >>), rest |-> From(s, 3)]
            ELSE Members(<< >>, Rest(s))
        ELSE IF First(s) = "\"" THEN String(Rest(s))
        ELSE IF First(s) \in DOMAIN Digits THEN
            IF First(s) = "0" /\ Rest(s) # "" /\ First(Rest(s)) \in DOMAIN Digits
            THEN Fail
            ELSE Number(0, s)
        ELSE IF \E w \in {"true", "false", "null"} : StartsWith(s, w) THEN
            LET w == CHOOSE w \in {"true", "false", "null"} : StartsWith(s, w)
            IN  [ok |-> TRUE, value |-> JLit(w), rest |-> From(s, Len(w) + 1)]
        ELSE Fail

ThrowError(name, message) ==
    [threw |-> TRUE, error |-> [name |-> name, message |-> message]]

\* JSON.parse(text)
JSONParse(text) ==
    LET r == ParseValue(text)
    IN  IF r.ok /\ r.rest = "" THEN Return(r.value)
        ELSE ThrowError("SyntaxError", "Unexpected token in JSON")

\* new URL(url) for an absolute URL: a string without a scheme is invalid,
\* and so is an http(s) URL without a host.
URLParse(url) ==
    LET colon == IndexOf(url, ":")
        scheme == SubSeq(url, 1, colon - 1)
        after == From(url, colon + 1)
        hostAndRest == From(after, 3)
        cut == LET stops == {i \in 1..Len(hostAndRest) :
                                SubSeq(hostAndRest, i, i) \in {"/", "?"}}
               IN  IF stops = {} THEN Len(hostAndRest) + 1
                   ELSE CHOOSE i \in stops : \A j \in stops : i <= j
        host == SubSeq(hostAndRest, 1, cut - 1)
        tail == From(hostAndRest, cut)
        portAt == IndexOf(host, ":")
        query == IndexOf(tail, "?")
    IN  IF colon <= 1 THEN ThrowError("TypeError", "Invalid URL")
        ELSE IF scheme \in {"http", "https"} THEN
            IF ~StartsWith(after, "//") \/ host = ""
            THEN ThrowError("TypeError", "Invalid URL")
            ELSE Return([protocol |-> scheme \o ":",
                         hostname |-> IF portAt = 0 THEN host
                                      ELSE SubSeq(host, 1, portAt - 1),
                         port |-> IF portAt = 0 THEN "" ELSE From(host, portAt + 1),
                         pathname |-> IF tail = "" \/ First(tail) = "?" THEN "/"
                                      ELSE IF query = 0 THEN tail
                                      ELSE SubSeq(tail, 1, query - 1),
                         search |-> IF query = 0 THEN "" ELSE From(tail, query)])
        ELSE Return([protocol |-> scheme \o ":", hostname |-> "", port |-> "",
                     pathname |-> after, search |-> ""])

----------------------------------------------------------------------------
(* Webhook URL builders and message formatters.                            *)

Undefined == [defined |-> FALSE, value |-> "undefined"]

Defined(v) == [defined |-> TRUE, value |-> v]

\* a || b
Or(a, b) == IF Not(a) THEN b ELSE a.value

\* ${v} in a template literal
Str(v) == IF v.defined THEN v.value ELSE "undefined"

\* The builders with Telegram's chat id left out of the URL
buildWebhookUrl_noChatId(platform, key, extra) ==
    CASE platform = PLATFORMS.WECOM ->
            Return("https://qyapi.weixin.qq.com/cgi-bin/webhook/send?key=" \o key)
      [] platform = PLATFORMS.DINGTALK ->
            Return("https://oapi.dingtalk.com/robot/send?access_token=" \o key)
      [] platform = PLATFORMS.FEISHU ->
            Return("https://open.feishu.cn/open-apis/bot/v2/hook/" \o key)
      [] platform = PLATFORMS.SLACK -> Return(key)
      [] platform = PLATFORMS.TELEGRAM ->
            Return("https://api.telegram.org/bot" \o key \o "/sendMessage")
      [] OTHER ->
            IF platform \in DOMAIN ObjectPrototype THEN Return(key)
            ELSE ThrowError("TypeError", "urlBuilder is not a function")

\* buildWebhookUrl[platform](key, extra).  An inherited property is the
\* Object function, which returns its first argument as a String object.
buildWebhookUrl(platform, key, extra) ==
    CASE platform = PLATFORMS.WECOM ->
            Return("https://qyapi.weixin.qq.com/cgi-bin/webhook/send?key=" \o key)
      [] platform = PLATFORMS.DINGTALK ->
            Return("https://oapi.dingtalk.com/robot/send?access_token=" \o key)
      [] platform = PLATFORMS.FEISHU ->
            Return("https://open.feishu.cn/open-apis/bot/v2/hook/" \o key)
      [] platform = PLATFORMS.SLACK -> Return(key)
      [] platform = PLATFORMS.TELEGRAM ->
            Return("https://api.telegram.org/bot" \o key
                   \o "/sendMessage?chat_id=" \o Str(extra))
      [] OTHER ->
            IF platform \in DOMAIN ObjectPrototype THEN Return(key)
            ELSE ThrowError("TypeError", "urlBuilder is not a function")

\* formatMessage[platform](content, options), options an object.
formatMessage(platform, content, options) ==
    CASE platform = PLATFORMS.WECOM ->
            Return(JObj(<< <<"msgtype", JStr("markdown")>>,
                           <<"markdown", JObj(<< <<"content", JStr(content)>> >>)>> >>))
      [] platform = PLATFORMS.DINGTALK ->
            Return(JObj(<< <<"msgtype", JStr("markdown")>>,
                           <<"markdown",
                             JObj(<< <<"title",
                                       JStr(Or(PropertyGet(options, "title"),
                                               "Notification"))>>,
                                     <<"text", JStr(content)>> >>)>> >>))
      [] platform = PLATFORMS.FEISHU ->
            Return(JObj(<< <<"msg_type", JStr("interactive")>>,
                           <<"card",
                             JObj(<< <<"header",
                                       JObj(<< <<"title",
                                                 JObj(<< <<"tag", JStr("plain_text")>>,
                                                         <<"content",
                                                           JStr(Or(PropertyGet(options, "title"),
                                                                   "Notification"))>> >>)>>,
                                               <<"template",
                                                 JStr(Or(PropertyGet(options, "color"),
                                                         "blue"))>> >>)>>,
                                     <<"elements",
                                       JArr(<<JObj(<< <<"tag", JStr("markdown")>>,
                                                      <<"content", JStr(content)>> >>)>>)>>
                                  >>)>> >>))
      [] platform = PLATFORMS.SLACK ->
            Return(JObj(<< <<"blocks",
                             JArr(<<JObj(<< <<"type", JStr("section")>>,
                                            <<"text",
                                              JObj(<< <<"type", JStr("mrkdwn")>>,
                                                      <<"text", JStr(content)>> >>)>>
                                         >>)>>)>> >>))
      [] platform = PLATFORMS.TELEGRAM ->
            Return(JObj(<< <<"text", JStr(content)>>,
                           <<"parse_mode", JStr("Markdown")>> >>))
      [] OTHER ->
            IF platform \in DOMAIN ObjectPrototype THEN Return(JStr(content))
            ELSE ThrowError("TypeError", "formatter is not a function")

\* The emoji glyphs are written as their ASCII short names.
STATUS_STYLES ==
    [started |-> [color |-> "blue", emoji |-> ":rocket:", wecom |-> "info"],
     in_progress |-> [color |-> "yellow", emoji |-> ":hourglass:", wecom |-> "warning"],
     completed |-> [color |-> "green", emoji |-> ":check:", wecom |-> "info"],
     failed |-> [color |-> "red", emoji |-> ":cross:", wecom |-> "warning"],
     cancelled |-> [color |-> "grey", emoji |-> ":stop:", wecom |-> "comment"]]

\* STATUS_STYLES[status] || STATUS_STYLES.in_progress, each field as read by
\* style.color, style.emoji, style.wecom: an inherited property of
\* STATUS_STYLES is a function, which has none of the three.
StyleFor(status) ==
    IF status.defined /\ status.value \in DOMAIN STATUS_STYLES
    THEN [f \in {"color", "emoji", "wecom"} |-> Defined(STATUS_STYLES[status.value][f])]
    ELSE IF status.defined /\ status.value \in DOMAIN ObjectPrototype
    THEN [f \in {"color", "emoji", "wecom"} |-> Undefined]
    ELSE [f \in {"color", "emoji", "wecom"} |-> Defined(STATUS_STYLES.in_progress[f])]

UpperMap ==
    [a |-> "A", b |-> "B", c |-> "C", d |-> "D", e |-> "E", f |-> "F", g |-> "G",
     h |-> "H", i |-> "I", j |-> "J", k |-> "K", l |-> "L", m |-> "M", n |-> "N",
     o |-> "O", p |-> "P", q |-> "Q", r |-> "R", s |-> "S", t |-> "T", u |-> "U",
     v |-> "V", w |-> "W", x |-> "X", y |-> "Y", z |-> "Z"]

\* s.toUpperCase()
RECURSIVE toUpperCase(_)
toUpperCase(s) ==
    IF s = "" THEN ""
    ELSE IF Len(s) = 1 THEN (IF s \in DOMAIN UpperMap THEN UpperMap[s] ELSE s)
    ELSE toUpperCase(SubSeq(s, 1, Len(s) \div 2))
         \o toUpperCase(From(s, Len(s) \div 2 + 1))

\* The grave accent that the Slack and Telegram templates put around the
\* status cannot be written in a TLA+ string; the apostrophe stands for it.
Tick == "'"

\* The progress templates; now is new Date().toISOString().
formatWeComProgress(taskName, status, details, style, now) ==
    "**" \o taskName \o "** - <font color=\"" \o Str(style.wecom) \o "\">"
    \o toUpperCase(status) \o "</font>"
    \o (IF details # "" THEN "\n> " \o details ELSE "")
    \o "\n> Time: " \o now

formatDingTalkProgress(taskName, status, details, style, now) ==
    "### " \o Str(style.emoji) \o " " \o taskName \o "\n\n"
    \o "**Status:** " \o toUpperCase(status) \o "\n\n"
    \o (IF details # "" THEN "> " \o details \o "\n\n" ELSE "")
    \o "---\n*" \o now \o "*"

formatFeishuProgress(taskName, status, details, style, now) ==
    "**" \o taskName \o "**\n"
    \o "Status: " \o toUpperCase(status) \o "\n"
    \o (IF details # "" THEN "\n" \o details \o "\n" ELSE "")
    \o "\n---\n" \o now

\* The Slack template without its details block
formatSlackProgress_noDetails(taskName, status, details, style, now) ==
    Str(style.emoji) \o " *" \o taskName \o "* - " \o Tick \o toUpperCase(status) \o Tick
    \o "\n_" \o now \o "_"

formatSlackProgress(taskName, status, details, style, now) ==
    Str(style.emoji) \o " *" \o taskName \o "* - " \o Tick \o toUpperCase(status) \o Tick
    \o (IF details # "" THEN "\n> " \o details ELSE "")
    \o "\n_" \o now \o "_"

formatTelegramProgress(taskName, status, details, style, now) ==
    Str(style.emoji) \o " *" \o taskName \o "* - " \o Tick \o toUpperCase(status) \o Tick
    \o (IF details # "" THEN "\n\n" \o details ELSE "")
    \o "\n\n_" \o now \o "_"

formatGenericProgress(taskName, status, details, style, now) ==
    Str(style.emoji) \o " " \o taskName \o " - " \o toUpperCase(status)
    \o (IF details # "" THEN "\n" \o details ELSE "")
    \o "\n" \o now

----------------------------------------------------------------------------
(* HTTP dispatcher.                                                        *)

Pending == [state |-> "pending", value |-> JLit("undefined")]

Rejected(error) == [state |-> "rejected", value |-> error]

\* resolve(value) and reject(error) of a promise: a settled promise stays.
Resolve(promise, value) ==
    IF promise.state = "pending" THEN [state |-> "fulfilled", value |-> value]
    ELSE promise

Reject(promise, error) ==
    IF promise.state = "pending" THEN Rejected(error) ELSE promise

\* What protocol.request(options, ..); req.write(postData); req.end() sends.
\* The port is written as a string, also where the source gives 443 or 80.
Request(u, postData) ==
    [module |-> IF u.protocol = "https:" THEN "https" ELSE "http",
     hostname |-> u.hostname,
     port |-> IF u.port # "" THEN u.port
              ELSE IF u.protocol = "https:" THEN "443" ELSE "80",
     path |-> u.pathname \o u.search,
     method |-> "POST",
     contentType |-> "application/json",
     contentLength |-> Len(postData),
     body |-> postData]

\* sendRequest issuing the request a second time
sendRequest_retry(url, data) ==
    LET u == URLParse(url)
        postData == JSONStringify(data)
    IN  IF u.threw THEN [promise |-> Rejected(u.error), sent |-> << >>]
        ELSE [promise |-> Pending,
              sent |-> <<Request(u.value, postData), Request(u.value, postData)>>]

\* sendRequest(url, data) up to its return: the promise it returns and the
\* requests it has sent.  A throw of the executor rejects the promise.
sendRequest(url, data) ==
    LET u == URLParse(url)
        postData == JSONStringify(data)
    IN  IF u.threw THEN [promise |-> Rejected(u.error), sent |-> << >>]
        ELSE [promise |-> Pending, sent |-> <<Request(u.value, postData)>>]

HttpError(statusCode, body) ==
    [name |-> "Error", message |-> "HTTP " \o ToString(statusCode) \o ": " \o body]

\* The 'end' handler deciding on the parse alone
OnEnd_parseOnly(promise, statusCode, body) ==
    LET response == JSONParse(body)
    IN  IF ~response.threw THEN Resolve(promise, response.value)
        ELSE Reject(promise, HttpError(statusCode, body))

\* The 'end' handler without the fallback of the catch block
OnEnd_noFallback(promise, statusCode, body) ==
    LET response == JSONParse(body)
    IN  IF ~response.threw /\ statusCode >= 200 /\ statusCode < 300
        THEN Resolve(promise, response.value)
        ELSE Reject(promise, HttpError(statusCode, body))

\* res.on('end', ..) with the whole response body read
OnEnd(promise, statusCode, body) ==
    LET response == JSONParse(body)
    IN  IF ~response.threw THEN
            IF statusCode >= 200 /\ statusCode < 300
            THEN Resolve(promise, response.value)
            ELSE Reject(promise, HttpError(statusCode, body))
        ELSE
            IF statusCode >= 200 /\ statusCode < 300
            THEN Resolve(promise, JObj(<< <<"raw", JStr(body)>> >>))
            ELSE Reject(promise, HttpError(statusCode, body))

\* The 'error' handler wrapping the error
OnError_wrap(promise, err) ==
    Reject(promise, [name |-> "Error", message |-> "HTTP 0: " \o err.message])

\* req.on('error', reject)
OnError(promise, err) == Reject(promise, err)

----------------------------------------------------------------------------
(* Public API.  An argument that may be omitted is undefined or defined; an *)
(* options argument is undefined, null or an object with string values.     *)

NoProps == [n \in {} |-> ""]

Obj(props) == [kind |-> "object", props |-> props]

BodyThrow(error) ==
    [threw |-> TRUE, error |-> error, promise |-> Pending, sent |-> << >>]

BodyReturn(promise, sent) ==
    [threw |-> FALSE, error |-> JLit("undefined"), promise |-> promise, sent |-> sent]

\* A plain function: a throw of the body leaves the call as a throw
Async_plain(b) ==
    IF b.threw
    THEN [completion |-> "throw", promise |-> [state |-> "none", value |-> b.error],
          sent |-> b.sent]
    ELSE [completion |-> "return", promise |-> b.promise, sent |-> b.sent]

\* An async function: the call returns a promise, which a throw of the body
\* rejects and which takes the outcome of a returned promise.
Async(b) ==
    [completion |-> "return",
     promise |-> IF b.threw THEN Rejected(b.error) ELSE b.promise,
     sent |-> b.sent]

\* push sending before it looks at the configuration: a missing variable
\* is reported after the request has left with the key read as undefined
pushBody_sendFirst(content, options) ==
    LET opts == IF options.kind = "undefined" THEN Obj(NoProps) ELSE options
        platform == Or(PropertyGet(opts.props, "platform"), DEFAULT_PLATFORM)
        config == getConfig(platform)
        url == buildWebhookUrl(platform,
                   IF config.threw THEN "undefined" ELSE config.value.key,
                   IF ~config.threw /\ "extra" \in DOMAIN config.value
                   THEN Defined(config.value.extra) ELSE Undefined)
        payload == formatMessage(platform, content, opts.props)
        sr == sendRequest(url.value, payload.value)
    IN  IF opts.kind = "null" THEN
            BodyThrow([name |-> "TypeError",
                       message |-> "Cannot read properties of null (reading 'platform')"])
        ELSE IF url.threw THEN BodyThrow(url.error)
        ELSE IF payload.threw THEN BodyThrow(payload.error)
        ELSE IF config.threw THEN
            [threw |-> TRUE, error |-> config.error, promise |-> Pending,
             sent |-> sr.sent]
        ELSE BodyReturn(sr.promise, sr.sent)

pushBody(content, options) ==
    LET opts == IF options.kind = "undefined" THEN Obj(NoProps) ELSE options
        platform == Or(PropertyGet(opts.props, "platform"), DEFAULT_PLATFORM)
        config == getConfig(platform)
        url == buildWebhookUrl(platform, config.value.key,
                   IF "extra" \in DOMAIN config.value
                   THEN Defined(config.value.extra) ELSE Undefined)
        payload == formatMessage(platform, content, opts.props)
        sr == sendRequest(url.value, payload.value)
    IN  IF opts.kind = "null" THEN
            BodyThrow([name |-> "TypeError",
                       message |-> "Cannot read properties of null (reading 'platform')"])
        ELSE IF config.threw THEN BodyThrow(config.error)
        ELSE IF url.threw THEN BodyThrow(url.error)
        ELSE IF payload.threw THEN BodyThrow(payload.error)
        ELSE BodyReturn(sr.promise, sr.sent)

push(content, options) == Async(pushBody(content, options))

\* The caller's options object after pushProgress: the Feishu case assigns
\* options.color (an undefined color reads like an absent one).
OptionsAfterProgress(status, options) ==
    LET platform == Or(PropertyGet(options.props, "platform"), DEFAULT_PLATFORM)
        color == StyleFor(status).color
    IN  IF options.kind = "object" /\ status.defined /\ platform = PLATFORMS.FEISHU
        THEN Obj([n \in (DOMAIN options.props \cup {"color"}) \ (IF color.defined THEN {} ELSE {"color"})
                     |-> IF n = "color" THEN color.value ELSE options.props[n]])
        ELSE options

\* The switch on the platform that picks the progress template.
ProgressContent(platform, taskName, status, details, style, now) ==
    CASE platform = PLATFORMS.WECOM ->
            formatWeComProgress(taskName, status, details, style, now)
      [] platform = PLATFORMS.DINGTALK ->
            formatDingTalkProgress(taskName, status, details, style, now)
      [] platform = PLATFORMS.FEISHU ->
            formatFeishuProgress(taskName, status, details, style, now)
      [] platform = PLATFORMS.SLACK ->
            formatSlackProgress(taskName, status, details, style, now)
      [] platform = PLATFORMS.TELEGRAM ->
            formatTelegramProgress(taskName, status, details, style, now)
      [] OTHER ->
            formatGenericProgress(taskName, status, details, style, now)

\* The spread written with the title first: a caller's title wins
ProgressPushArgs_titleFirst(taskName, status, details, options, now) ==
    LET opts == IF options.kind = "undefined" THEN Obj(NoProps) ELSE options
        det == IF details.defined THEN details.value ELSE ""
        platform == Or(PropertyGet(opts.props, "platform"), DEFAULT_PLATFORM)
        after == OptionsAfterProgress(status, opts)
    IN  [content |-> ProgressContent(platform, taskName, status.value, det,
                                     StyleFor(status), now),
         options |-> Obj([n \in DOMAIN after.props \cup {"title"} |->
                             IF n \in DOMAIN after.props THEN after.props[n]
                             ELSE taskName \o " - " \o Str(status)])]

\* The arguments pushProgress hands to push: the templated content and the
\* spread of the (possibly reassigned) options with the title on top.
ProgressPushArgs(taskName, status, details, options, now) ==
    LET opts == IF options.kind = "undefined" THEN Obj(NoProps) ELSE options
        det == IF details.defined THEN details.value ELSE ""
        platform == Or(PropertyGet(opts.props, "platform"), DEFAULT_PLATFORM)
        after == OptionsAfterProgress(status, opts)
    IN  [content |-> ProgressContent(platform, taskName, status.value, det,
                                     StyleFor(status), now),
         options |-> Obj([n \in DOMAIN after.props \cup {"title"} |->
                             IF n = "title" THEN taskName \o " - " \o Str(status)
                             ELSE after.props[n]])]

pushProgressBody(taskName, status, details, options, now) ==
    LET opts == IF options.kind = "undefined" THEN Obj(NoProps) ELSE options
        args == ProgressPushArgs(taskName, status, details, options, now)
        inner == push(args.content, args.options)
    IN  IF opts.kind = "null" THEN
            BodyThrow([name |-> "TypeError",
                       message |-> "Cannot read properties of null (reading 'platform')"])
        ELSE IF ~status.defined THEN
            BodyThrow([name |-> "TypeError",
                       message |-> "Cannot read properties of undefined (reading 'toUpperCase')"])
        ELSE IF inner.completion = "throw" THEN BodyThrow(inner.promise.value)
        ELSE BodyReturn(inner.promise, inner.sent)

pushProgress(taskName, status, details, options, now) ==
    Async(pushProgressBody(taskName, status, details, options, now))

----------------------------------------------------------------------------
(* Inputs.                                                                 *)

EnvVarNames ==
    {ENV_KEYS[p] : p \in DOMAIN ENV_KEYS} \cup {ENV_EXTRAS[p] : p \in DOMAIN ENV_EXTRAS}

\* Values a variable is set to: empty, a bare key, a full webhook URL.
EnvValues == {"", "k1", "https://hooks.slack.com/services/T1"}

\* Arguments passed as a platform identifier.
PlatformArgs ==
    {PlatformValues[i] : i \in 1..Len(PlatformValues)} \cup {"unknown-x", "constructor"}

NoEnv == [n \in {} |-> ""]

AllSetEnv == [n \in EnvVarNames |-> "k1"]

NoCall == [fn |-> "none"]

----------------------------------------------------------------------------
(* The configuration API under a changing environment.                     *)

InitConfig ==
    /\ env \in {NoEnv, AllSetEnv}
    /\ loadEnv = env
    /\ ret = NoCall
    /\ calls = << >>
    /\ requests = << >>

\* process.env[name] = value.  ret holds the completion of a call made by
\* the step itself, so a step that makes no call clears it.
SetEnv(name, value) ==
    /\ env' = [n \in DOMAIN env \cup {name} |-> IF n = name THEN value ELSE env[n]]
    /\ ret' = NoCall
    /\ UNCHANGED <<loadEnv, calls, requests>>

\* delete process.env[name]
UnsetEnv(name) ==
    /\ name \in DOMAIN env
    /\ env' = [n \in DOMAIN env \ {name} |-> env[n]]
    /\ ret' = NoCall
    /\ UNCHANGED <<loadEnv, calls, requests>>

CallGetConfig(platform) ==
    /\ ret' = [fn |-> "getConfig", arg |-> platform, out |-> getConfig(platform)]
    /\ UNCHANGED <<env, loadEnv, calls, requests>>

CallIsConfigured(platform) ==
    /\ ret' = [fn |-> "isConfigured", arg |-> platform, out |-> isConfigured(platform)]
    /\ UNCHANGED <<env, loadEnv, calls, requests>>

CallGetConfiguredPlatforms ==
    /\ ret' = [fn |-> "getConfiguredPlatforms", arg |-> "", out |-> getConfiguredPlatforms]
    /\ UNCHANGED <<env, loadEnv, calls, requests>>

NextConfig ==
    \/ \E n \in EnvVarNames, v \in EnvValues : SetEnv(n, v)
    \/ \E n \in EnvVarNames : UnsetEnv(n)
    \/ \E p \in PlatformArgs : CallGetConfig(p)
    \/ \E p \in PlatformArgs : CallIsConfigured(p)
    \/ CallGetConfiguredPlatforms

SpecConfig == InitConfig /\ [][NextConfig]_vars

----------------------------------------------------------------------------
(* push and pushProgress calls and the network.                            *)

MaxCalls == 1

\* wecom empty, dingtalk unset, feishu set, slack a full URL, telegram with
\* its token alone
MixedEnv ==
    [n \in {"WEBHOOK_WECOM_KEY", "WEBHOOK_FEISHU_TOKEN", "WEBHOOK_SLACK_URL",
            "WEBHOOK_TELEGRAM_TOKEN"} |->
        CASE n = "WEBHOOK_WECOM_KEY" -> ""
          [] n = "WEBHOOK_SLACK_URL" -> "https://hooks.slack.com/services/T1"
          [] OTHER -> "k1"]

\* every variable set, each to a value of its own; the Slack URL was
\* entered without its scheme
DistinctEnv ==
    [n \in EnvVarNames |->
        CASE n = "WEBHOOK_WECOM_KEY" -> "wk"
          [] n = "WEBHOOK_DINGTALK_TOKEN" -> "dt"
          [] n = "WEBHOOK_FEISHU_TOKEN" -> "fs"
          [] n = "WEBHOOK_SLACK_URL" -> "hooks.slack.com/services/T1"
          [] n = "WEBHOOK_TELEGRAM_TOKEN" -> "42:tg"
          [] OTHER -> "-1001"]

PushEnvs == {NoEnv, MixedEnv, DistinctEnv}

OptionArgs ==
    {[kind |-> "undefined", props |-> NoProps], [kind |-> "null", props |-> NoProps]}
    \cup {Obj([platform |-> p]) : p \in PlatformArgs \cup {""}}
    \cup {Obj([platform |-> "feishu", title |-> "Nightly", color |-> "red"])}

Contents == {"Build completed successfully!"}

ProgressArgs ==
    {[taskName |-> "Build", status |-> Defined("completed"),
      details |-> Defined("All tests passed")],
     [taskName |-> "Build", status |-> Defined("deploying"), details |-> Undefined],
     [taskName |-> "Task", status |-> Undefined, details |-> Undefined]}

Times == {"2026-01-01T00:00:00.000Z"}

StatusCodes == {200, 299, 300, 404}

Bodies == {"", "not json", "12", "{\"errcode\":0}"}

TransportErrors ==
    {[name |-> "Error", code |-> "ECONNREFUSED",
      message |-> "connect ECONNREFUSED 127.0.0.1:443"],
     [name |-> "Error", code |-> "ENOTFOUND",
      message |-> "getaddrinfo ENOTFOUND hooks.slack.com"]}

Init ==
    /\ env \in PushEnvs
    /\ loadEnv = env
    /\ ret = NoCall
    /\ calls = << >>
    /\ requests = << >>

\* The requests bound to the callbacks of the first call, as with resolve
\* and reject kept in module-level variables
Sent_shared(call, sent) ==
    [i \in 1..Len(sent) |->
        [call |-> 1, req |-> sent[i], state |-> "open", statusCode |-> 0,
         body |-> "", error |-> JLit("undefined")]]

\* The requests a call has sent, as the network holds them.
Sent(call, sent) ==
    [i \in 1..Len(sent) |->
        [call |-> call, req |-> sent[i], state |-> "open", statusCode |-> 0,
         body |-> "", error |-> JLit("undefined")]]

PushCall(content, options) ==
    /\ LET r == push(content, options)
       IN  /\ calls' = Append(calls,
                  [fn |-> "push", content |-> content, options |-> options,
                   optionsAfter |-> options, now |-> "",
                   pushed |-> [content |-> content, options |-> options],
                   completion |-> r.completion, promise |-> r.promise])
           /\ requests' = requests \o Sent(Len(calls) + 1, r.sent)
    /\ UNCHANGED <<env, loadEnv, ret>>

PushProgressCall(a, options, now) ==
    /\ LET r == pushProgress(a.taskName, a.status, a.details, options, now)
       IN  /\ calls' = Append(calls,
                  [fn |-> "pushProgress", content |-> a, options |-> options,
                   optionsAfter |-> OptionsAfterProgress(a.status, options),
                   now |-> now,
                   pushed |-> IF options.kind = "null" \/ ~a.status.defined
                              THEN [content |-> "", options |-> options]
                              ELSE ProgressPushArgs(a.taskName, a.status, a.details,
                                                    options, now),
                   completion |-> r.completion, promise |-> r.promise])
           /\ requests' = requests \o Sent(Len(calls) + 1, r.sent)
    /\ UNCHANGED <<env, loadEnv, ret>>

\* The response to request k has been read to its end.
ResponseEnd(k, statusCode, body) ==
    /\ requests[k].state = "open"
    /\ requests' = [requests EXCEPT ![k].state = "responded",
                                    ![k].statusCode = statusCode,
                                    ![k].body = body]
    /\ calls' = [calls EXCEPT ![requests[k].call].promise =
                    OnEnd(@, statusCode, body)]
    /\ UNCHANGED <<env, loadEnv, ret>>

\* Request k fails at the transport level.
RequestError(k, err) ==
    /\ requests[k].state = "open"
    /\ requests' = [requests EXCEPT ![k].state = "errored", ![k].error = err]
    /\ calls' = [calls EXCEPT ![requests[k].call].promise = OnError(@, err)]
    /\ UNCHANGED <<env, loadEnv, ret>>

Next ==
    \/ \E c \in Contents, o \in OptionArgs :
          Len(calls) < MaxCalls /\ PushCall(c, o)
    \/ \E a \in ProgressArgs, o \in OptionArgs, now \in Times :
          Len(calls) < MaxCalls /\ PushProgressCall(a, o, now)
    \/ \E k \in 1..Len(requests), sc \in StatusCodes, b \in Bodies : ResponseEnd(k, sc, b)
    \/ \E k \in 1..Len(requests), e \in TransportErrors : RequestError(k, e)

Spec == Init /\ [][Next]_vars

----------------------------------------------------------------------------
(* Properties of the configuration API (checked under SpecConfig).         *)

KnownPlatforms == {PlatformValues[i] : i \in 1..Len(PlatformValues)}

\* The variable is set to a non-empty value in the current environment.
IsSet(name) == name \in DOMAIN env /\ env[name] # ""

RequiredVars(p) ==
    {ENV_KEYS[p]} \cup (IF p \in DOMAIN ENV_EXTRAS THEN {ENV_EXTRAS[p]} ELSE {})

FullySet(p) == p \in KnownPlatforms /\ \A n \in RequiredVars(p) : IsSet(n)

RegistryIndex(p) == CHOOSE i \in 1..Len(PlatformValues) : PlatformValues[i] = p

\* C2: getConfig never caches: the result of every getConfig, isConfigured
\* and getConfiguredPlatforms call is the one the environment as it is at
\* that call determines, whatever the environment was before: a returned
\* key (and extra) is the current value of the variable, and a call for a
\* platform with a variable that is now unset or empty fails.
C2_NoCaching ==
    /\ (ret.fn = "getConfig" /\ ret.arg \in KnownPlatforms) =>
          /\ ret.out.threw = ~FullySet(ret.arg)
          /\ ~ret.out.threw => ret.out.value.key = env[ENV_KEYS[ret.arg]]
          /\ (~ret.out.threw /\ ret.arg \in DOMAIN ENV_EXTRAS) =>
                ret.out.value.extra = env[ENV_EXTRAS[ret.arg]]
    /\ (ret.fn = "isConfigured" /\ ~ret.out.threw) =>
          ret.out.value = FullySet(ret.arg)
    /\ (ret.fn = "getConfiguredPlatforms" /\ ~ret.out.threw) =>
          {ret.out.value[i] : i \in 1..Len(ret.out.value)}
             = {p \in KnownPlatforms : FullySet(p)}

\* A call fails for a variable that was set when the module was loaded, and
\* a call returns a key that differs from the one set at load time.
C2_Witness ==
    \/ /\ ret.fn = "getConfig" /\ ret.arg = "wecom" /\ ret.out.threw
       /\ "WEBHOOK_WECOM_KEY" \in DOMAIN loadEnv
       /\ loadEnv["WEBHOOK_WECOM_KEY"] # ""
       /\ "WEBHOOK_WECOM_KEY" \notin DOMAIN env
    \/ /\ ret.fn = "getConfig" /\ ret.arg = "slack" /\ ~ret.out.threw
       /\ "WEBHOOK_SLACK_URL" \in DOMAIN loadEnv
       /\ loadEnv["WEBHOOK_SLACK_URL"] # ""
       /\ ret.out.value.key # loadEnv["WEBHOOK_SLACK_URL"]

PrimaryMissingMessage(name) ==
    "Missing environment variable: " \o name \o "\n"
    \o "Please set it in your .env file or environment.\n"
    \o "Example: " \o name \o "=your-webhook-key-or-token"

\* C3: for a known platform, getConfig fails exactly when a required
\* variable is unset or empty; the error names the primary variable when
\* that one is missing, and otherwise the extra variable (Telegram's
\* WEBHOOK_TELEGRAM_CHAT_ID) with a message of another form; on success key
\* is the primary value, extra the extra value, and extra is present only
\* for a platform that declares an extra variable.
C3_MissingCredential ==
    (ret.fn = "getConfig" /\ ret.arg \in KnownPlatforms) =>
        LET p == ret.arg
            out == ret.out
        IN  /\ ~IsSet(ENV_KEYS[p]) =>
                  /\ out.threw
                  /\ out.error.message = PrimaryMissingMessage(ENV_KEYS[p])
            /\ (IsSet(ENV_KEYS[p]) /\ p = "telegram"
                   /\ ~IsSet("WEBHOOK_TELEGRAM_CHAT_ID")) =>
                  /\ out.threw
                  /\ StartsWith(out.error.message,
                        "Missing environment variable: WEBHOOK_TELEGRAM_CHAT_ID\n")
                  /\ ~Contains(out.error.message, "WEBHOOK_TELEGRAM_TOKEN")
                  /\ ~Contains(out.error.message, "Please set it in your .env file")
                  /\ Contains(out.error.message, "required for telegram webhooks")
            /\ FullySet(p) =>
                  /\ ~out.threw
                  /\ out.value.key = env[ENV_KEYS[p]]
                  /\ IF p = "telegram"
                     THEN /\ DOMAIN out.value = {"key", "extra"}
                          /\ out.value.extra = env["WEBHOOK_TELEGRAM_CHAT_ID"]
                     ELSE DOMAIN out.value = {"key"}

\* getConfig('telegram') with the token set and the chat id missing.
C3_Witness ==
    /\ ret.fn = "getConfig" /\ ret.arg = "telegram" /\ ret.out.threw
    /\ IsSet("WEBHOOK_TELEGRAM_TOKEN")
    /\ ~IsSet("WEBHOOK_TELEGRAM_CHAT_ID")

\* C4: for every identifier that is not one of the five platform
\* identifiers, getConfig fails with the unknown-platform error, whose
\* message lists the five valid identifiers, whatever the environment.
C4_UnknownPlatform ==
    (ret.fn = "getConfig" /\ ret.arg \notin KnownPlatforms) =>
        /\ ret.out.threw
        /\ StartsWith(ret.out.error.message, "Unknown platform: " \o ret.arg)
        /\ \A p \in {"wecom", "dingtalk", "feishu", "slack", "telegram"} :
              Contains(ret.out.error.message, p)

\* C5: isConfigured never throws, for a known or an unknown identifier, and
\* returns true exactly when the identifier is a known platform all of whose
\* required variables are set and non-empty (when getConfig succeeds).
C5_IsConfiguredTotal ==
    ret.fn = "isConfigured" =>
        /\ ~ret.out.threw
        /\ ret.out.value \in BOOLEAN
        /\ ret.out.value = FullySet(ret.arg)
        /\ ret.out.value = ~getConfig(ret.arg).threw

\* isConfigured returned false for an unknown identifier, and for Telegram
\* with its token alone.
C5_Witness ==
    /\ ret.fn = "isConfigured" /\ ~ret.out.threw /\ ret.out.value = FALSE
    /\ \/ ret.arg = "unknown-x"
       \/ ret.arg = "telegram" /\ IsSet("WEBHOOK_TELEGRAM_TOKEN")

\* C6: getConfiguredPlatforms returns the known platforms whose required
\* variables are all set, each once, in registry order (wecom, dingtalk,
\* feishu, slack, telegram): the empty list when nothing is set, and not a
\* platform with only part of its variables set.
C6_ConfiguredPlatforms ==
    ret.fn = "getConfiguredPlatforms" =>
        LET v == ret.out.value
        IN  /\ ~ret.out.threw
            /\ \A i \in 1..Len(v) : v[i] \in KnownPlatforms /\ FullySet(v[i])
            /\ \A p \in KnownPlatforms : FullySet(p) => \E i \in 1..Len(v) : v[i] = p
            /\ \A i, j \in 1..Len(v) :
                  i < j => RegistryIndex(v[i]) < RegistryIndex(v[j])
            /\ (\A n \in EnvVarNames : ~IsSet(n)) => v = << >>

\* The list is exactly wecom, slack while Telegram has its token alone.
C6_Witness ==
    /\ ret.fn = "getConfiguredPlatforms"
    /\ ret.out.value = <<"wecom", "slack">>
    /\ IsSet("WEBHOOK_TELEGRAM_TOKEN")
    /\ ~IsSet("WEBHOOK_TELEGRAM_CHAT_ID")

----------------------------------------------------------------------------
(* Properties of push and pushProgress (checked under Spec).               *)

RequestsOf(i) == {k \in 1..Len(requests) : requests[k].call = i}

\* The platform a call names, or the default when it names none.
Target(c) ==
    IF c.options.kind = "object" /\ "platform" \in DOMAIN c.options.props
       /\ c.options.props.platform # ""
    THEN c.options.props.platform
    ELSE "wecom"

\* The call's arguments can be read: the options are not null and, for
\* pushProgress, the status is a string.
ReadableArgs(c) ==
    /\ c.options.kind # "null"
    /\ c.fn = "pushProgress" => c.content.status.defined

\* The call gets as far as the dispatcher with a URL that parses.
Dispatchable(c) ==
    /\ ReadableArgs(c)
    /\ FullySet(Target(c))
    /\ Target(c) = "slack" =>
          \/ StartsWith(env["WEBHOOK_SLACK_URL"], "https://")
          \/ StartsWith(env["WEBHOOK_SLACK_URL"], "http://")

Is2xx(statusCode) == statusCode >= 200 /\ statusCode < 300

\* C1 as stated: every invocation of push or pushProgress issues exactly one
\* outbound request, whatever its outcome.
C1_ExactlyOneRequest ==
    \A i \in 1..Len(calls) : Cardinality(RequestsOf(i)) = 1

\* C1 as amended: every invocation issues at most one request and never a
\* second one, whatever its outcome: exactly one when the call reaches the
\* dispatcher (arguments readable, the target's required variables set, the
\* URL parses) and none when it is rejected before.
C1_AtMostOneRequest ==
    \A i \in 1..Len(calls) :
        /\ Cardinality(RequestsOf(i)) <= 1
        /\ Cardinality(RequestsOf(i)) = IF Dispatchable(calls[i]) THEN 1 ELSE 0

\* A call whose one request was answered by an error status and has been
\* rejected, with still one request.
C1_Witness ==
    \E i \in 1..Len(calls) :
        /\ calls[i].promise.state = "rejected"
        /\ RequestsOf(i) # {}
        /\ \A k \in RequestsOf(i) : requests[k].state # "open"

\* C7: a response whose status is outside [200,300) rejects the call with an
\* error whose message holds the status code and the raw body text, whether
\* the body is valid JSON or not; the call is never fulfilled.
C7_HttpError ==
    \A k \in 1..Len(requests) :
        (requests[k].state = "responded" /\ ~Is2xx(requests[k].statusCode)) =>
            LET p == calls[requests[k].call].promise
            IN  /\ p.state = "rejected"
                /\ p.value.name = "Error"
                /\ StartsWith(p.value.message, "HTTP ")
                /\ Contains(p.value.message, ToString(requests[k].statusCode))
                /\ Contains(p.value.message, requests[k].body)
                /\ p.value.message =
                      "HTTP " \o ToString(requests[k].statusCode) \o ": "
                      \o requests[k].body

\* A 404 whose body is valid JSON.
C7_Witness ==
    \E k \in 1..Len(requests) :
        /\ requests[k].state = "responded"
        /\ requests[k].statusCode = 404
        /\ requests[k].body = "{\"errcode\":0}"
        /\ calls[requests[k].call].promise.state = "rejected"

\* C8: a response whose status is in [200,300) never fails the call: it is
\* fulfilled with the parsed body when the body is valid JSON and with an
\* object carrying the raw text when it is not.
C8_SuccessNeverFails ==
    \A k \in 1..Len(requests) :
        (requests[k].state = "responded" /\ Is2xx(requests[k].statusCode)) =>
            LET p == calls[requests[k].call].promise
                body == requests[k].body
            IN  /\ p.state = "fulfilled"
                /\ body = "{\"errcode\":0}" =>
                      p.value = JObj(<< <<"errcode", JNum(0)>> >>)
                /\ body = "12" => p.value = JNum(12)
                /\ body \in {"", "not json"} =>
                      p.value = JObj(<< <<"raw", JStr(body)>> >>)

\* A 2xx response whose body is not JSON, and one whose body is.
C8_Witness ==
    \E k \in 1..Len(requests) :
        /\ requests[k].state = "responded"
        /\ requests[k].statusCode = 299
        /\ requests[k].body = "not json"
        /\ calls[requests[k].call].promise.state = "fulfilled"

\* C9: a transport-level error rejects the call with that same error, not
\* wrapped and not turned into a value, and no further request is issued.
C9_TransportError ==
    \A k \in 1..Len(requests) :
        requests[k].state = "errored" =>
            LET p == calls[requests[k].call].promise
            IN  /\ p.state = "rejected"
                /\ p.value = requests[k].error
                /\ RequestsOf(requests[k].call) = {k}

\* A pushProgress call whose request failed with ENOTFOUND.
C9_Witness ==
    \E k \in 1..Len(requests) :
        /\ requests[k].state = "errored"
        /\ calls[requests[k].call].promise.state = "rejected"
        /\ requests[k].error.code = "ENOTFOUND"
        /\ calls[requests[k].call].fn = "pushProgress"

\* C10: push and pushProgress always return a promise and never throw to
\* the caller; a failure before any network activity (null options, a status
\* that is no string, an unknown platform, a missing variable, a URL that
\* does not parse) is a rejection of that promise, and the promise is
\* fulfilled only by a response with a status in [200,300).
C10_AlwaysAPromise ==
    \A i \in 1..Len(calls) :
        LET c == calls[i]
        IN  /\ c.completion = "return"
            /\ c.promise.state \in {"pending", "fulfilled", "rejected"}
            /\ ~Dispatchable(c) =>
                  /\ c.promise.state = "rejected"
                  /\ RequestsOf(i) = {}
            /\ ~ReadableArgs(c) => c.promise.value.name = "TypeError"
            /\ (ReadableArgs(c) /\ Target(c) = "unknown-x") =>
                  StartsWith(c.promise.value.message, "Unknown platform: unknown-x")
            /\ (ReadableArgs(c) /\ Target(c) \in KnownPlatforms
                  /\ ~FullySet(Target(c))) =>
                  StartsWith(c.promise.value.message, "Missing environment variable: ")
            /\ c.promise.state = "fulfilled" =>
                  \E k \in RequestsOf(i) :
                      requests[k].state = "responded" /\ Is2xx(requests[k].statusCode)

\* A call for an unknown platform and a call with a missing variable, each
\* returned as a rejected promise.
C10_Witness ==
    \E i \in 1..Len(calls) :
        /\ calls[i].completion = "return"
        /\ calls[i].promise.state = "rejected"
        /\ RequestsOf(i) = {}
        /\ \/ Target(calls[i]) = "unknown-x"
           \/ Target(calls[i]) = "telegram" /\ IsSet("WEBHOOK_TELEGRAM_TOKEN")

----------------------------------------------------------------------------
(* Platform selection of push and pushProgress (checked under Spec).       *)

\* The caller's options carry a platform value (any string, also the empty
\* one).
SuppliedPlatform(c) ==
    c.options.kind = "object" /\ "platform" \in DOMAIN c.options.props

\* The host a request to the platform goes to; Slack's is the host of the
\* configured URL.
PlatformHost(p) ==
    CASE p = "wecom" -> "qyapi.weixin.qq.com"
      [] p = "dingtalk" -> "oapi.dingtalk.com"
      [] p = "feishu" -> "open.feishu.cn"
      [] p = "slack" -> "hooks.slack.com"
      [] p = "telegram" -> "api.telegram.org"
      [] OTHER -> ""

\* C11: push and pushProgress target options.platform whenever the caller
\* supplies a platform value and fall back to the default platform (wecom)
\* only when options.platform is absent; a supplied value that is not a
\* valid identifier leads to the unknown-platform rejection and never to a
\* send on the default platform.
C11_SuppliedPlatformIsTargeted ==
    \A i \in 1..Len(calls) :
        LET c == calls[i]
        IN  ReadableArgs(c) =>
              /\ (SuppliedPlatform(c) /\ c.options.props.platform \notin KnownPlatforms) =>
                    /\ RequestsOf(i) = {}
                    /\ c.promise.state = "rejected"
                    /\ StartsWith(c.promise.value.message, "Unknown platform: ")
              /\ (SuppliedPlatform(c) /\ c.options.props.platform \in KnownPlatforms) =>
                    \A k \in RequestsOf(i) :
                        requests[k].req.hostname = PlatformHost(c.options.props.platform)
              /\ ~SuppliedPlatform(c) =>
                    \A k \in RequestsOf(i) :
                        requests[k].req.hostname = PlatformHost(DEFAULT_PLATFORM)

----------------------------------------------------------------------------
(* pushProgress with every status kind, details and caller options, one    *)
(* call at a time with every variable set (SpecProgress).                  *)

\* three of the five kinds, an unknown kind and a name that every object
\* inherits
StatusArgs == {"in_progress", "completed", "failed", "deploying", "constructor"}

\* empty, whitespace only, text
DetailsArgs == {Defined(""), Defined("   "), Defined("All tests passed")}

ProgressFormatArgs ==
    {[taskName |-> "Build", status |-> Defined(s), details |-> d] :
        s \in StatusArgs, d \in DetailsArgs}

ProgressOptionArgs ==
    {[kind |-> "undefined", props |-> NoProps]}
    \cup {Obj([platform |-> PlatformValues[i]]) : i \in 1..Len(PlatformValues)}
    \cup {Obj([platform |-> p, title |-> "Nightly", color |-> "red"]) :
             p \in {PLATFORMS.DINGTALK, PLATFORMS.FEISHU}}
    \cup {Obj([platform |-> "unknown-x"])}

InitProgress ==
    /\ env = DistinctEnv
    /\ loadEnv = env
    /\ ret = NoCall
    /\ calls = << >>
    /\ requests = << >>

NextProgress ==
    \E a \in ProgressFormatArgs, o \in ProgressOptionArgs, now \in Times :
        Len(calls) < MaxCalls /\ PushProgressCall(a, o, now)

SpecProgress == InitProgress /\ [][NextProgress]_vars

\* The properties the caller gave, none when the options were left out.
GivenProps(c) == IF c.options.kind = "object" THEN c.options.props ELSE NoProps

\* The title pushProgress composes.
ProgressTitle(c) == c.content.taskName \o " - " \o c.content.status.value

StatusKinds == {"started", "in_progress", "completed", "failed", "cancelled"}

\* C12 as stated: pushProgress always passes to push the title
\* "<taskName> - <status>", overwriting any caller title, for every
\* platform, and passes every other caller-supplied option through.
C12_AllOtherOptionsPassedThrough ==
    \A i \in 1..Len(calls) :
        LET c == calls[i]
            passed == c.pushed.options.props
        IN  (c.fn = "pushProgress" /\ ReadableArgs(c)) =>
              /\ "title" \in DOMAIN passed /\ passed.title = ProgressTitle(c)
              /\ \A n \in DOMAIN GivenProps(c) \ {"title"} :
                    n \in DOMAIN passed /\ passed[n] = GivenProps(c)[n]

\* C12 as amended: the title passed to push is always
\* "<taskName> - <status>", over any caller title and on every platform, and
\* a title-bearing payload (DingTalk, Feishu) carries it; every other
\* caller-supplied option is passed through, except that for Feishu the
\* color passed is the color of the style pushProgress took for the status
\* (no color at all when that style has none), whatever color the caller
\* gave.
C12_TitleOverwritten ==
    \A i \in 1..Len(calls) :
        LET c == calls[i]
            passed == c.pushed.options.props
            kind == c.content.status.value
        IN  (c.fn = "pushProgress" /\ ReadableArgs(c)) =>
              /\ "title" \in DOMAIN passed /\ passed.title = ProgressTitle(c)
              /\ \A n \in DOMAIN GivenProps(c) \ {"title"} :
                    \/ n = "color" /\ Target(c) = "feishu"
                    \/ n \in DOMAIN passed /\ passed[n] = GivenProps(c)[n]
              /\ Target(c) = "feishu" =>
                    IF kind \in StatusKinds
                    THEN "color" \in DOMAIN passed
                         /\ passed.color = STATUS_STYLES[kind].color
                    ELSE IF kind \in DOMAIN ObjectPrototype
                    THEN "color" \notin DOMAIN passed
                    ELSE "color" \in DOMAIN passed
                         /\ passed.color = STATUS_STYLES.in_progress.color
              /\ Target(c) \in {"dingtalk", "feishu"} =>
                    \A k \in RequestsOf(i) :
                        /\ Contains(requests[k].req.body, "\"" \o ProgressTitle(c) \o "\"")
                        /\ ~Contains(requests[k].req.body, "Nightly")

\* A DingTalk progress call whose caller gave a title and a color: the
\* request carries the composed title and the color was passed through.
C12_Witness ==
    \E i \in 1..Len(calls) :
        /\ calls[i].fn = "pushProgress"
        /\ Target(calls[i]) = "dingtalk"
        /\ "title" \in DOMAIN GivenProps(calls[i])
        /\ GivenProps(calls[i]).title # ProgressTitle(calls[i])
        /\ calls[i].pushed.options.props.title = ProgressTitle(calls[i])
        /\ calls[i].pushed.options.props.color = "red"
        /\ \E k \in RequestsOf(i) :
              Contains(requests[k].req.body, ProgressTitle(calls[i]))

\* The details a progress call gave, the empty string when it gave none.
DetailsOf(c) == IF c.content.details.defined THEN c.content.details.value ELSE ""

\* The string is empty or holds spaces only.
Blank(s) == \A j \in 1..Len(s) : SubSeq(s, j, j) = " "

\* C13: in every platform's progress template the details block is omitted
\* entirely whenever details is empty or blank (whitespace only): the
\* content is the one a call without details gets, with no details line, no
\* empty line and no stray block-quote marker; when details is not blank the
\* content contains the details text.
C13_BlankDetailsOmitted ==
    \A i \in 1..Len(calls) :
        LET c == calls[i]
            content == c.pushed.content
        IN  (c.fn = "pushProgress" /\ ReadableArgs(c)) =>
              /\ Blank(DetailsOf(c)) =>
                    /\ content = ProgressContent(Target(c), c.content.taskName,
                                     c.content.status.value, "",
                                     StyleFor(c.content.status), c.now)
                    /\ ~Contains(content, "\n> \n")
                    /\ ~Contains(content, "\n\n\n")
                    /\ DetailsOf(c) # "" => ~Contains(content, DetailsOf(c))
              /\ ~Blank(DetailsOf(c)) => Contains(content, DetailsOf(c))

\* The style the claim gives a status: its own for one of the five kinds,
\* the in_progress style for any other.
ClaimedStyle(status) ==
    IF status \in StatusKinds THEN STATUS_STYLES[status] ELSE STATUS_STYLES.in_progress

\* C14: for a status outside {started, in_progress, completed, failed,
\* cancelled} pushProgress takes the in_progress style (color, emoji, WeCom
\* accent) for all styling, the Feishu card header color included, while the
\* content still shows the caller's status text upper-cased; for a status
\* inside the set it takes that kind's own style.
C14_UnknownStatusFallsBack ==
    \A i \in 1..Len(calls) :
        LET c == calls[i]
            content == c.pushed.content
            style == ClaimedStyle(c.content.status.value)
        IN  (c.fn = "pushProgress" /\ ReadableArgs(c)) =>
              /\ Contains(content, toUpperCase(c.content.status.value))
              /\ Target(c) = "wecom" =>
                    Contains(content, "<font color=\"" \o style.wecom \o "\">")
              /\ Target(c) \notin {"wecom", "feishu"} =>
                    StartsWith(content, style.emoji)
                    \/ StartsWith(content, "### " \o style.emoji)
              /\ Target(c) = "feishu" =>
                    /\ "color" \in DOMAIN c.pushed.options.props
                    /\ c.pushed.options.props.color = style.color
                    /\ \A k \in RequestsOf(i) :
                          Contains(requests[k].req.body,
                                   "\"template\":\"" \o style.color \o "\"")

\* How often sub occurs in s.
Occurrences(s, sub) ==
    Cardinality({j \in 1..(Len(s) - Len(sub) + 1) : SubSeq(s, j, j + Len(sub) - 1) = sub})

EndsWith(s, p) ==
    Len(s) >= Len(p) /\ SubSeq(s, Len(s) - Len(p) + 1, Len(s)) = p

\* The content platform p's template gives the arguments of call c.
ContentFor(p, c) ==
    ProgressContent(p, c.content.taskName, c.content.status.value, DetailsOf(c),
                    StyleFor(c.content.status), c.now)

\* Platform p's template renders a details block for call c: the content
\* differs from the one without details.
HasDetailsBlock(p, c) ==
    ContentFor(p, c) # ProgressContent(p, c.content.taskName, c.content.status.value,
                                       "", StyleFor(c.content.status), c.now)

\* C15: for the same (taskName, status, details) the progress content of
\* each of the five platforms carries the same information items: the task
\* name, the upper-cased status, the details (in all five or in none) and one
\* timestamp, which comes last; no template drops or adds one of them, and
\* the content sent is the one of the call's own platform.
C15_SameItemsOnEveryPlatform ==
    \A i \in 1..Len(calls) :
        LET c == calls[i]
        IN  (c.fn = "pushProgress" /\ ReadableArgs(c)) =>
              /\ \A p \in KnownPlatforms :
                    LET content == ContentFor(p, c)
                    IN  /\ Occurrences(content, c.content.taskName) = 1
                        /\ Occurrences(content, toUpperCase(c.content.status.value)) = 1
                        /\ DetailsOf(c) # "" <=> HasDetailsBlock(p, c)
                        /\ Contains(content, DetailsOf(c))
                        /\ DetailsOf(c) = "" => ~Contains(content, "All tests passed")
                        /\ Occurrences(content, c.now) = 1
                        /\ \E closer \in {"", "*", "_"} :
                              EndsWith(content, c.now \o closer)
              /\ Target(c) \in KnownPlatforms => c.pushed.content = ContentFor(Target(c), c)

\* A Telegram progress call with details: the content holds the details, the
\* upper-cased status and ends with the timestamp.
C15_Witness ==
    \E i \in 1..Len(calls) :
        /\ calls[i].fn = "pushProgress"
        /\ Target(calls[i]) = "telegram"
        /\ DetailsOf(calls[i]) = "All tests passed"
        /\ Contains(calls[i].pushed.content, "All tests passed")
        /\ Contains(calls[i].pushed.content, "COMPLETED")
        /\ EndsWith(calls[i].pushed.content, calls[i].now \o "_")

----------------------------------------------------------------------------
(* The request of a push (checked under Spec).                             *)

\* The URL a request went to, its port left out as in the configured URLs.
RequestUrl(req) == req.module \o "://" \o req.hostname \o req.path

\* The URL rule of each platform, on the platform's own variables.
ExpectedUrl(p) ==
    CASE p = "wecom" ->
            "https://qyapi.weixin.qq.com/cgi-bin/webhook/send?key="
            \o env["WEBHOOK_WECOM_KEY"]
      [] p = "dingtalk" ->
            "https://oapi.dingtalk.com/robot/send?access_token="
            \o env["WEBHOOK_DINGTALK_TOKEN"]
      [] p = "feishu" ->
            "https://open.feishu.cn/open-apis/bot/v2/hook/" \o env["WEBHOOK_FEISHU_TOKEN"]
      [] p = "slack" -> env["WEBHOOK_SLACK_URL"]
      [] p = "telegram" ->
            "https://api.telegram.org/bot" \o env["WEBHOOK_TELEGRAM_TOKEN"]
            \o "/sendMessage?chat_id=" \o env["WEBHOOK_TELEGRAM_CHAT_ID"]

\* The option of the push call, or the fallback the formatter takes.
PushedOption(c, name, fallback) ==
    IF name \in DOMAIN c.pushed.options.props /\ c.pushed.options.props[name] # ""
    THEN c.pushed.options.props[name]
    ELSE fallback

\* The string as a JSON string.
Quoted(s) == JSONStringify(JStr(s))

\* The body of each platform's payload as it goes over the wire, for the
\* content and options that call c handed to push.
ExpectedBody(p, c) ==
    CASE p = "wecom" ->
            "{\"msgtype\":\"markdown\",\"markdown\":{\"content\":"
            \o Quoted(c.pushed.content) \o "}}"
      [] p = "dingtalk" ->
            "{\"msgtype\":\"markdown\",\"markdown\":{\"title\":"
            \o Quoted(PushedOption(c, "title", "Notification"))
            \o ",\"text\":" \o Quoted(c.pushed.content) \o "}}"
      [] p = "feishu" ->
            "{\"msg_type\":\"interactive\",\"card\":{\"header\":{\"title\":"
            \o "{\"tag\":\"plain_text\",\"content\":"
            \o Quoted(PushedOption(c, "title", "Notification"))
            \o "},\"template\":" \o Quoted(PushedOption(c, "color", "blue"))
            \o "},\"elements\":[{\"tag\":\"markdown\",\"content\":"
            \o Quoted(c.pushed.content) \o "}]}}"
      [] p = "slack" ->
            "{\"blocks\":[{\"type\":\"section\",\"text\":{\"type\":\"mrkdwn\","
            \o "\"text\":" \o Quoted(c.pushed.content) \o "}}]}"
      [] p = "telegram" ->
            "{\"text\":" \o Quoted(c.pushed.content)
            \o ",\"parse_mode\":\"Markdown\"}"

\* C16: for a push to platform p, every request of the call goes to the URL
\* built by p's own rule from p's own credentials (WeCom, DingTalk: fixed
\* base and the credential as a query parameter; Feishu: fixed base and the
\* credential as a path segment; Slack: the credential itself; Telegram:
\* fixed base, the bot token as a path segment and the chat id as a query
\* parameter) and carries the payload of p's own formatter on this call's
\* content and options, never another platform's.
C16_OwnUrlAndPayload ==
    \A k \in 1..Len(requests) :
        LET c == calls[requests[k].call]
            p == Target(c)
            req == requests[k].req
        IN  /\ p \in KnownPlatforms
            /\ RequestUrl(req) = ExpectedUrl(p)
            /\ req.method = "POST"
            /\ req.body = ExpectedBody(p, c)
            /\ \A q \in KnownPlatforms \ {p} : req.hostname # PlatformHost(q)

\* A Telegram request built from the token and the chat id, and a Feishu
\* request built from the Feishu token, with every credential different.
C16_Witness ==
    /\ env = DistinctEnv
    /\ \E k \in 1..Len(requests) :
          /\ Target(calls[requests[k].call]) \in {"telegram", "feishu"}
          /\ \/ requests[k].req.path = "/bot42:tg/sendMessage?chat_id=-1001"
             \/ requests[k].req.path = "/open-apis/bot/v2/hook/fs"
          /\ Contains(requests[k].req.body, "Build completed successfully!")

----------------------------------------------------------------------------
(* Several calls in flight, their responses and transport errors arriving  *)
(* in any order (SpecConcurrent).                                          *)

MaxInFlight == 2

ConcurrentOptionArgs ==
    {[kind |-> "undefined", props |-> NoProps], Obj([platform |-> "telegram"]),
     Obj([platform |-> "unknown-x"])}

ConcurrentProgressArgs ==
    {[taskName |-> "Build", status |-> Defined("failed"), details |-> Undefined]}

ConcurrentStatusCodes == {200, 404}

ConcurrentBodies == {"not json", "{\"errcode\":0}"}

InitConcurrent ==
    /\ env = DistinctEnv
    /\ loadEnv = env
    /\ ret = NoCall
    /\ calls = << >>
    /\ requests = << >>

NextConcurrent ==
    \/ \E c \in Contents, o \in ConcurrentOptionArgs :
          Len(calls) < MaxInFlight /\ PushCall(c, o)
    \/ \E a \in ConcurrentProgressArgs, now \in Times :
          Len(calls) < MaxInFlight
          /\ PushProgressCall(a, Obj([platform |-> "feishu"]), now)
    \/ \E k \in 1..Len(requests), sc \in ConcurrentStatusCodes, b \in ConcurrentBodies :
          ResponseEnd(k, sc, b)
    \/ \E k \in 1..Len(requests), e \in TransportErrors : RequestError(k, e)

SpecConcurrent == InitConcurrent /\ [][NextConcurrent]_vars

\* C17: concurrent push / pushProgress calls are independent: with several
\* calls in flight whose responses or transport errors arrive in any order,
\* each call opens its own request (no request is shared) and settles by the
\* outcome of its own request only: pending while that request is open,
\* fulfilled on its 2xx response, rejected with its status and body on any
\* other response, rejected with its error on a transport error; and each
\* request keeps the URL and payload of its own call.
C17_CallsAreIndependent ==
    /\ \A i \in 1..Len(calls) :
          /\ Cardinality(RequestsOf(i)) = IF Dispatchable(calls[i]) THEN 1 ELSE 0
          /\ \A k \in RequestsOf(i) :
                LET r == requests[k]
                    promise == calls[i].promise
                IN  /\ r.state = "open" => promise.state = "pending"
                    /\ (r.state = "responded" /\ Is2xx(r.statusCode)) =>
                          /\ promise.state = "fulfilled"
                          /\ promise.value \in
                                {JObj(<< <<"raw", JStr(r.body)>> >>),
                                 JObj(<< <<"errcode", JNum(0)>> >>)}
                          /\ promise.value = JObj(<< <<"raw", JStr(r.body)>> >>)
                                <=> r.body = "not json"
                    /\ (r.state = "responded" /\ ~Is2xx(r.statusCode)) =>
                          /\ promise.state = "rejected"
                          /\ promise.value.message =
                                "HTTP " \o ToString(r.statusCode) \o ": " \o r.body
                    /\ r.state = "errored" =>
                          promise.state = "rejected" /\ promise.value = r.error
                    /\ RequestUrl(r.req) = ExpectedUrl(Target(calls[i]))
                    /\ Contains(r.req.body, JSONStringify(JStr(calls[i].pushed.content)))
          /\ RequestsOf(i) = {} => calls[i].promise.state = "rejected"
    /\ \A k \in 1..Len(requests) : requests[k].call \in 1..Len(calls)

\* Two calls in flight at once, the later one answered first: the earlier
\* call is still pending on its open request while the later one has settled
\* on its own response.
C17_Witness ==
    /\ Len(calls) >= 2
    /\ \E k1 \in RequestsOf(1), k2 \in RequestsOf(2) :
          /\ requests[k1].state = "open"
          /\ calls[1].promise.state = "pending"
          /\ requests[k2].state = "responded"
          /\ requests[k2].statusCode = 404
          /\ calls[2].promise.state = "rejected"

----------------------------------------------------------------------------
(* The platform registry (checked under Spec).                             *)

\* The identifier has a URL builder, a payload formatter, of its own (not
\* a property every object inherits).
HasUrlBuilder(p) ==
    ~buildWebhookUrl(p, "k", Defined("x")).threw /\ p \notin DOMAIN ObjectPrototype

HasFormatter(p) ==
    ~formatMessage(p, "c", NoProps).threw /\ p \notin DOMAIN ObjectPrototype

\* C18: in every reachable state the registry is complete and consistent:
\* each of the five platform identifiers has exactly one primary credential
\* variable name, one URL builder and one payload formatter, only Telegram
\* has an extra credential variable (exactly one), and no identifier has one
\* entry without the others; so every call whose platform getConfig accepts
\* is dispatched by push: it sends its request or is rejected for the URL
\* alone, never for a missing builder or formatter.
C18_RegistryComplete ==
    /\ Len(PlatformValues) = 5
    /\ Cardinality(KnownPlatforms) = 5
    /\ KnownPlatforms = {PLATFORMS[n] : n \in DOMAIN PLATFORMS}
    /\ DOMAIN ENV_KEYS = KnownPlatforms
    /\ Cardinality({ENV_KEYS[p] : p \in KnownPlatforms}) = 5
    /\ DOMAIN ENV_EXTRAS = {PLATFORMS.TELEGRAM}
    /\ ENV_EXTRAS[PLATFORMS.TELEGRAM] \notin {ENV_KEYS[p] : p \in KnownPlatforms}
    /\ \A p \in PlatformArgs \cup KnownPlatforms :
          /\ HasUrlBuilder(p) <=> p \in DOMAIN ENV_KEYS
          /\ HasFormatter(p) <=> p \in DOMAIN ENV_KEYS
    /\ \A i \in 1..Len(calls) :
          LET c == calls[i]
          IN  (ReadableArgs(c) /\ ~getConfig(Target(c)).threw) =>
                /\ Target(c) \in KnownPlatforms
                /\ \/ RequestsOf(i) # {}
                   \/ /\ Target(c) = PLATFORMS.SLACK
                      /\ c.promise.state = "rejected"
                      /\ c.promise.value.message = "Invalid URL"
                /\ c.promise.state = "rejected" => c.promise.value.name # "TypeError"
                      \/ c.promise.value.message = "Invalid URL"

\* A Telegram call, whose configuration needs both variables, dispatched
\* and answered.
C18_Witness ==
    \E i \in 1..Len(calls) :
        /\ Target(calls[i]) = PLATFORMS.TELEGRAM
        /\ ~getConfig(PLATFORMS.TELEGRAM).threw
        /\ \E k \in RequestsOf(i) : requests[k].state = "responded"
        /\ calls[i].promise.state = "fulfilled"

----------------------------------------------------------------------------
(* Configuration before sending (checked under Spec).                      *)

\* C19: configuration is resolved before anything is sent: a push or
\* pushProgress call for an unknown platform, or for a platform with a
\* required variable unset or empty, fails with the configuration error and
\* issues no request, so every request in the network belongs to a call
\* whose platform is fully configured; and a call never issues more than one
\* request.
C19_ConfigBeforeSend ==
    /\ \A i \in 1..Len(calls) :
          LET c == calls[i]
          IN  /\ Cardinality(RequestsOf(i)) <= 1
              /\ (ReadableArgs(c) /\ ~FullySet(Target(c))) =>
                    /\ RequestsOf(i) = {}
                    /\ c.promise.state = "rejected"
                    /\ c.promise.value.name = "Error"
                    /\ \/ StartsWith(c.promise.value.message, "Unknown platform: ")
                       \/ StartsWith(c.promise.value.message,
                                     "Missing environment variable: ")
    /\ \A k \in 1..Len(requests) :
          /\ requests[k].call \in 1..Len(calls)
          /\ FullySet(Target(calls[requests[k].call]))

\* A progress call for DingTalk while its token is unset: rejected for the
\* missing variable, nothing sent.
C19_Witness ==
    \E i \in 1..Len(calls) :
        /\ calls[i].fn = "pushProgress"
        /\ Target(calls[i]) = "dingtalk"
        /\ ~IsSet("WEBHOOK_DINGTALK_TOKEN")
        /\ calls[i].promise.state = "rejected"
        /\ StartsWith(calls[i].promise.value.message,
                      "Missing environment variable: WEBHOOK_DINGTALK_TOKEN")
        /\ RequestsOf(i) = {}

----------------------------------------------------------------------------
(* The caller's options object (checked under Spec).                       *)

\* C20: push and pushProgress leave the caller's options object unchanged,
\* for every platform: the object the caller holds after the call has the
\* properties and values it had before, so that a later call reusing it gets
\* its title and color from its own arguments only.
C20_OptionsUnchanged ==
    \A i \in 1..Len(calls) : calls[i].optionsAfter = calls[i].options

====
